---- MODULE Spec2Model ----
(***************************************************************************)
(* The studio page (src/app/studio/page.tsx) and the audio player it       *)
(* mounts (src/components/studio/AudioPlayer.tsx): the Web Audio graph the *)
(* player builds, the React effects that rewire it, the project loads and  *)
(* uploads of the page that replace the player's file, the unsaved-changes *)
(* flag with its baseline, and the dialogs for saving and for leaving.     *)
(*                                                                         *)
(* The browser's main thread runs one task at a time.  A task is an event  *)
(* handler followed by the effects React flushes for it; `todo` holds the  *)
(* steps of the running task that are still to be executed, in order.      *)
(* Numbers are scaled to integers: speed and volume in thousandths,        *)
(* and so is the pitch ratio.                                              *)
(***************************************************************************)
EXTENDS Integers, Sequences, FiniteSets, TLC

VARIABLES
    \* ---- StudioPage (React state, refs and the async loadProject) ----
    urlProject,          \* searchParams.get('project'), 0 = absent
    audioFile,           \* useState<File|null>: the file's name, NoFile = null
    loadedProject,       \* useState<AudioProject|null>: [id, settings], id 0 = null
    loadingProject,      \* useState(false)
    loadError,           \* useState<string|null>: TRUE = a message is set
    loadedProjectIdRef,  \* useRef<string|null>, 0 = null
    lpPc,                \* position of the running loadProject call
    lpId,                \* its projectId argument
    lpProject,           \* its local `project` once getProject has resolved
    validating,          \* AudioUploader validations in flight
    pendingCommit,       \* a state change React has not rendered yet
    ctxRef,              \* audioContextRef.current is set
    srcRef,              \* sourceNodeRef.current is set
    \* ---- AudioPlayer (React state of the mounted instance) ----
    mounted,             \* an AudioPlayer instance is mounted
    playerKey,           \* the key it was mounted with
    st,                  \* its useState values
    originalEffectsSettings,  \* useState<AudioEffectsSettings|null>, NoSettings = null
    hasUnsavedChanges,   \* useState(false)
    showSaveDialog,      \* useState(false)
    isSaving,            \* SaveProjectDialog: a save request is in flight
    saveError,           \* SaveProjectDialog: an error message is shown
    \* ---- StudioPage: leaving the studio ----
    pageHasUnsavedChanges,  \* the page's own hasUnsavedChanges
    showUnsavedDialog,   \* useState(false)
    pendingNavigation,   \* useState<string|null>: NoUrl = null
    triggerSaveDialog,   \* useState(false)
    isExiting,           \* useState(false)
    pushTimer,           \* the pending setTimeout that pushes a URL, NoTimer if none
    persisted,           \* the persistence layer has stored a save of this session
    pushed,              \* the URL router.push was last called with, NoUrl if never
    \* ---- objects the load effect creates ----
    graph,               \* "none" | "live" | "torn": state of the latest node set
    edges,               \* connections among the latest nodes
    ctxState,            \* AudioContext.state of the latest context
    oldCtxOpen,          \* some earlier AudioContext was never closed
    filterGain,          \* bassBoostNode.gain.value
    psActive,            \* PitchShifter.active
    psShift,             \* PitchShifter.shift, in thousandths
    audioPlaying,        \* the latest audio element is playing
    playbackRate,        \* audio.playbackRate, in thousandths
    audioVolume,         \* audio.volume, in thousandths
    \* ---- main thread and audio callback ----
    todo,                \* remaining steps of the running task
    task,                \* what started the running task, "idle" if none
    \* ---- one AudioProcessingEvent of the pitch unit's processor ----
    inputData,           \* event.inputBuffer.getChannelData(0), indexed from 0
    outputData,          \* event.outputBuffer.getChannelData(0), indexed from 0
    lastRead,            \* the indexes of inputData the last processAudio call read
    \* ---- the audio element's transport and load events ----
    duration,            \* useState(0), in seconds
    currentTime,         \* useState(0), in hundredths of a second
    seekValue,           \* useState(0), a percentage
    audioTime,           \* audio.currentTime, in hundredths of a second
    fileIsWav,           \* name ends with .wav or type is audio/wav
    hasSuccessfullyLoaded,
    hasReportedError,
    reported,            \* the messages handleAudioError has reported for this load
    warned               \* the load timeout has warned

vars == <<urlProject, audioFile, loadedProject, loadingProject, loadError,
          loadedProjectIdRef, lpPc, lpId, lpProject, validating, pendingCommit,
          ctxRef, srcRef, mounted, playerKey, st, graph, edges, ctxState,
          oldCtxOpen, filterGain, psActive, psShift, audioPlaying, playbackRate,
          audioVolume, todo, task, inputData, outputData, lastRead, duration,
          currentTime, seekValue, audioTime, fileIsWav, hasSuccessfullyLoaded,
          hasReportedError, reported, warned, originalEffectsSettings,
          hasUnsavedChanges, showSaveDialog, isSaving, saveError,
          pageHasUnsavedChanges, showUnsavedDialog, pendingNavigation,
          triggerSaveDialog, isExiting, pushTimer, persisted, pushed>>

pageVars == <<urlProject, audioFile, loadedProject, loadingProject, loadError,
              loadedProjectIdRef, lpPc, lpId, lpProject, validating>>
refVars == <<ctxRef, srcRef>>
playerVars == <<mounted, playerKey, st>>
unitVars == <<filterGain, psActive, psShift>>
audioVars == <<audioPlaying, playbackRate, audioVolume>>
deviceVars == <<graph, edges, ctxState, oldCtxOpen, unitVars, audioVars>>
blockVars == <<inputData, outputData, lastRead>>
transportVars == <<duration, currentTime, seekValue, audioTime>>
mediaVars == <<fileIsWav, hasSuccessfullyLoaded, hasReportedError, reported, warned>>
elementVars == <<transportVars, mediaVars>>
dirtyVars == <<originalEffectsSettings, hasUnsavedChanges, pageHasUnsavedChanges>>
saveDialogVars == <<showSaveDialog, isSaving, saveError>>
leaveVars == <<showUnsavedDialog, pendingNavigation, triggerSaveDialog, isExiting,
               pushTimer, persisted, pushed>>
dialogVars == <<saveDialogVars, leaveVars>>

----------------------------------------------------------------------------
\* Bounds of the model

NProjects == 2
MaxValidating == 2
BlockLen == 5                \* samples in one block (4096 in the program)

Projects == 1..NProjects
NoFile == -1
UploadName == 0              \* the name of the file the user drops
FileNames == {UploadName} \cup Projects   \* a project's file is named after it

\* Values the sliders and stored records are drawn from
SemitoneChoices == {0, 12}
BassAmountChoices == {6, 10}
SpeedChoices == {1000, 1300}
VolumeChoices == {750, 500}

----------------------------------------------------------------------------
\* AudioPlayer: React state

DefaultVolume == 750
DefaultBassAmount == 6
DefaultSpeed == 1000
DefaultSemitones == 0

InitialState ==
    [ isPlaying           |-> FALSE,
      volume              |-> DefaultVolume,
      pitchShiftEnabled   |-> FALSE,
      pitchValue          |-> DefaultSemitones,
      speedControlEnabled |-> FALSE,
      speedValue          |-> DefaultSpeed,
      bassBoostEnabled    |-> FALSE,
      bassBoostAmount     |-> DefaultBassAmount ]

\* AudioEffectsSettings records the persistence layer can return
StoredSettings ==
    { [ bass_enabled |-> e, bass_amount |-> a,
        speed_enabled |-> e, speed |-> s,
        pitch_enabled |-> e, semitones |-> p,
        volume |-> v ] :
      e \in {TRUE}, a \in {10}, s \in {1300}, p \in {12}, v \in {500} }

NoSettings == [ bass_enabled |-> FALSE, bass_amount |-> 0, speed_enabled |-> FALSE,
                speed |-> 0, pitch_enabled |-> FALSE, semitones |-> 0, volume |-> 0 ]
NoProject == [ id |-> 0, settings |-> NoSettings ]

\* the routes the page pushes
NoUrl == "none"
Dashboard == "/dashboard"
CopiedProject == "/studio?project="

\* `setTimeout(() => { router.push(url); ... }, 500)`: the URL the callback has
\* captured and whether it also calls setPendingNavigation(null)
NoTimer == [ url |-> NoUrl, clearsPending |-> FALSE ]

----------------------------------------------------------------------------
\* PitchShifter

\* Math.pow(2, semitones / 12), in thousandths
PitchRatioTable ==
    <<1000, 1059, 1122, 1189, 1260, 1335, 1414, 1498, 1587, 1682, 1782, 1888, 2000>>
PitchRatioDown ==
    <<1000, 944, 891, 841, 794, 749, 707, 667, 630, 595, 561, 530, 500>>
PitchRatio(semitones) ==
    IF semitones >= 0 THEN PitchRatioTable[semitones + 1]
    ELSE PitchRatioDown[1 - semitones]

\* `shift: number = 0`
InitialShift == 0

\* Samples are in thousandths; the choices are whole numbers so that the linear
\* interpolation below is exact, and differ from the 0 of silence
Samples == {-1000, 1000}
Blocks == [0..(BlockLen - 1) -> Samples]
Silence == [i \in 0..(BlockLen - 1) |-> 0]

\* the semitone values the callback is exercised with (the slider has -12..12)
SemitoneRange == {-12, 0, 7, 12}

\* readIndex before output sample i: i additions of readIndexStep, in thousandths
ReadIndex(i, pitchRatio) == i * pitchRatio
IntIndex(i, pitchRatio) == ReadIndex(i, pitchRatio) \div 1000
Fraction(i, pitchRatio) == ReadIndex(i, pitchRatio) % 1000

\* one output sample of the resampling loop
Resampled(i, pitchRatio, input) ==
    LET n == Cardinality(DOMAIN input)
        intIndex == IntIndex(i, pitchRatio)
        fraction == Fraction(i, pitchRatio)
    IN  IF intIndex < n - 1
        THEN ((1000 - fraction) * input[intIndex] + fraction * input[intIndex + 1]) \div 1000
        ELSE IF intIndex < n THEN input[intIndex]
        ELSE 0

\* the indexes of the input the resampling loop reads for output sample i
ResampledReads(i, pitchRatio, input) ==
    LET n == Cardinality(DOMAIN input)
        intIndex == IntIndex(i, pitchRatio)
    IN  IF intIndex < n - 1 THEN {intIndex, intIndex + 1}
        ELSE IF intIndex < n THEN {intIndex}
        ELSE {}

\* processAudio without the test of `active`
ProcessAudioAlwaysResamples(active, shift, input, output) ==
    [i \in DOMAIN output |-> Resampled(i, shift, input)]

\* processAudio with the last valid index treated as out of range
ProcessAudioDropsLast(active, shift, input, output) ==
    IF ~active \/ shift = 1000
    THEN [i \in DOMAIN output |-> IF i \in DOMAIN input THEN input[i] ELSE output[i]]
    ELSE [i \in DOMAIN output |->
             IF IntIndex(i, shift) < Cardinality(DOMAIN input) - 1
             THEN Resampled(i, shift, input) ELSE 0]

\* PitchShifter.processAudio: the output block it leaves
ProcessAudio(active, shift, input, output) ==
    IF ~active \/ shift = 1000
    THEN [i \in DOMAIN output |-> IF i \in DOMAIN input THEN input[i] ELSE output[i]]
    ELSE [i \in DOMAIN output |-> Resampled(i, shift, input)]

\* the indexes of the input one call reads
ProcessAudioReads(active, shift, input, output) ==
    IF ~active \/ shift = 1000
    THEN DOMAIN input
    ELSE UNION { ResampledReads(i, shift, input) : i \in DOMAIN output }

----------------------------------------------------------------------------
\* The graph

Source == "Source"
InputGain == "InputGain"
BassBoostFilter == "BassBoostFilter"
PSInput == "PitchShifter.inputNode"
PSProcessor == "PitchShifter.processor"
PSOutput == "PitchShifter.outputNode"
AnalyserInput == "analyserInputNode"
Destination == "Destination"

\* the nodes the load effect creates for a file
FileNodes == {Source, InputGain, BassBoostFilter, PSInput, PSProcessor, PSOutput,
              AnalyserInput}

Out(E, n) == { e \in E : e[1] = n }
Disconnect(E, n) == E \ Out(E, n)
Connect(E, a, b) == E \cup {<<a, b>>}

\* PitchShifter constructor: inputNode -> processor -> outputNode
PitchShifterEdges == {<<PSInput, PSProcessor>>, <<PSProcessor, PSOutput>>}

\* PitchShifter.disconnect()
PitchShifterDisconnect(E) ==
    Disconnect(Disconnect(Disconnect(E, PSInput), PSProcessor), PSOutput)

\* State A and State B of the routing, with the pitch unit's own wiring
StateA == {<<Source, InputGain>>, <<InputGain, PSInput>>, <<PSOutput, Destination>>}
              \cup PitchShifterEdges
StateB == {<<Source, InputGain>>, <<InputGain, BassBoostFilter>>,
           <<BassBoostFilter, PSInput>>, <<PSOutput, Destination>>}
              \cup PitchShifterEdges
Topology(bassBoost) == IF bassBoost THEN StateB ELSE StateA

EffectiveGain(s) == IF s.bassBoostEnabled THEN s.bassBoostAmount ELSE 0

----------------------------------------------------------------------------
\* Effects of the player, in declaration order, and their dependency lists

\* a routing effect that also lists speedControlEnabled
RoutingDepsWithSpeed(s) == <<s.bassBoostEnabled, s.pitchShiftEnabled, s.speedControlEnabled>>
RoutingDeps(s) == <<s.bassBoostEnabled, s.pitchShiftEnabled>>
PitchDeps(s) == <<s.pitchShiftEnabled, s.pitchValue>>
SpeedDeps(s) == <<s.speedControlEnabled, s.speedValue>>
VolumeDeps(s) == <<s.volume>>
\* a bass gain effect that lists only the amount
BassGainDepsAmountOnly(s) == <<s.bassBoostAmount>>
BassGainDeps(s) == <<s.bassBoostEnabled, s.bassBoostAmount>>

When(cond, step) == IF cond THEN <<step>> ELSE <<>>

\* getCurrentEffectsSettings: the live state as an AudioEffectsSettings record
CurrentSettings(s) ==
    [ bass_enabled |-> s.bassBoostEnabled, bass_amount |-> s.bassBoostAmount,
      speed_enabled |-> s.speedControlEnabled, speed |-> s.speedValue,
      pitch_enabled |-> s.pitchShiftEnabled, semitones |-> s.pitchValue,
      volume |-> s.volume ]

\* the effects on the graph and the element React re-runs when the state goes
\* from old to new
ParameterEffectsAfter(old, new) ==
       When(RoutingDeps(old) # RoutingDeps(new), "routingEffect")
    \o When(PitchDeps(old) # PitchDeps(new), "pitchEffect")
    \o When(SpeedDeps(old) # SpeedDeps(new), "speedEffect")
    \o When(VolumeDeps(old) # VolumeDeps(new), "volumeEffect")
    \o When(BassGainDeps(old) # BassGainDeps(new), "bassGainEffect")

\* the effects React re-runs when the state goes from old to new: checkForUnsavedChanges
\* is a new callback whenever one of the seven settings changed
EffectsAfter(old, new) ==
       ParameterEffectsAfter(old, new)
    \o When(CurrentSettings(old) # CurrentSettings(new), "unsavedChangesEffect")

\* every effect runs on mount, in the order of declaration
MountEffects ==
    <<"loadEffect", "routingEffect", "pitchEffect", "speedEffect", "volumeEffect",
      "bassGainEffect", "unsavedChangesEffect", "saveDialogEffect",
      "applyProjectEffect">>

\* the effects React re-runs when only the audioFile prop changed
FileChangeEffects == <<"loadCleanup", "loadEffect">>

\* the routing effect without bassBoostNode.disconnect()
RoutingStepsKeepBass(bassBoost) ==
    <<"gainDisconnect", "sourceDisconnect", "sourceConnect", "gainConnect">>
        \o When(bassBoost, "bassConnect") \o <<"pitchConnect">>

\* the routing effect without gainNode.disconnect()
RoutingStepsKeepGain(bassBoost) ==
    <<"bassDisconnect", "sourceDisconnect", "sourceConnect", "gainConnect">>
        \o When(bassBoost, "bassConnect") \o <<"pitchConnect">>

\* the connect/disconnect calls of the routing effect, in order
RoutingSteps(bassBoost) ==
    <<"gainDisconnect", "bassDisconnect", "sourceDisconnect", "sourceConnect",
      "gainConnect">> \o When(bassBoost, "bassConnect") \o <<"pitchConnect">>

----------------------------------------------------------------------------
\* The main thread

Head0(s) == IF s = <<>> THEN "none" ELSE Head(s)

\* a step of the running task is next
At(step) == Head0(todo) = step

\* the running task goes on with `rest`, and ends when nothing is left
Continue(rest) ==
    /\ todo' = rest
    /\ task' = IF rest = <<>> THEN "idle" ELSE task

Begin(name, steps) ==
    /\ todo' = steps
    /\ task' = IF steps = <<>> THEN "idle" ELSE name

\* no task runs and React has rendered every state change
Idle == todo = <<>> /\ pendingCommit = "none"

\* the routing effect has issued its first disconnect and not yet its last connect
InReconfiguration ==
    Head0(todo) \in {"bassDisconnect", "sourceDisconnect", "sourceConnect",
                     "gainConnect", "bassConnect", "pitchConnect"}

\* a processor whose callback runs on another thread, whatever the main thread does
CallbackAnyTime == TRUE

\* onaudioprocess is an event of the ScriptProcessorNode, dispatched on the
\* main thread: it is delivered only between tasks
CallbackMayRun == todo = <<>>

----------------------------------------------------------------------------
Init ==
    /\ urlProject = 0
    /\ audioFile = NoFile
    /\ loadedProject = NoProject
    /\ loadingProject = FALSE
    /\ loadError = FALSE
    /\ loadedProjectIdRef = 0
    /\ lpPc = "idle"
    /\ lpId = 0
    /\ lpProject = NoSettings
    /\ validating = 0
    /\ pendingCommit = "none"
    /\ ctxRef = FALSE
    /\ srcRef = FALSE
    /\ mounted = FALSE
    /\ playerKey = <<NoFile, 0>>
    /\ st = InitialState
    /\ graph = "none"
    /\ edges = {}
    /\ ctxState = "none"
    /\ oldCtxOpen = FALSE
    /\ filterGain = 0
    /\ psActive = FALSE
    /\ psShift = InitialShift
    /\ audioPlaying = FALSE
    /\ playbackRate = DefaultSpeed
    /\ audioVolume = 1000
    /\ todo = <<>>
    /\ task = "idle"
    /\ inputData = Silence
    /\ outputData = Silence
    /\ lastRead = {}
    /\ duration = 0
    /\ currentTime = 0
    /\ seekValue = 0
    /\ audioTime = 0
    /\ fileIsWav = FALSE
    /\ hasSuccessfullyLoaded = FALSE
    /\ hasReportedError = FALSE
    /\ reported = <<>>
    /\ warned = FALSE
    /\ originalEffectsSettings = NoSettings
    /\ hasUnsavedChanges = FALSE
    /\ showSaveDialog = FALSE
    /\ isSaving = FALSE
    /\ saveError = FALSE
    /\ pageHasUnsavedChanges = FALSE
    /\ showUnsavedDialog = FALSE
    /\ pendingNavigation = NoUrl
    /\ triggerSaveDialog = FALSE
    /\ isExiting = FALSE
    /\ pushTimer = NoTimer
    /\ persisted = FALSE
    /\ pushed = NoUrl

----------------------------------------------------------------------------
\* AudioPlayer: the load effect ([audioFile]) and its cleanup

\* a load effect that leaves the new element's playbackRate alone
InitialRateUnset(s) == DefaultSpeed

\* `new Audio(url)`: playbackRate is 1.0 until the effect sets it
InitialRate(s) == IF s.speedControlEnabled THEN s.speedValue ELSE DefaultSpeed

\* the connections the load effect and the PitchShifter constructor make
LoadedEdges == {<<Source, InputGain>>, <<Source, AnalyserInput>>} \cup PitchShifterEdges

\* the load effect resets the transport state and the flags of its error handler
LoadResets ==
    /\ duration' = 0
    /\ currentTime' = 0
    /\ seekValue' = 0
    /\ audioTime' = 0
    /\ hasSuccessfullyLoaded' = FALSE
    /\ hasReportedError' = FALSE
    /\ reported' = <<>>
    /\ warned' = FALSE

LoadEffect ==
    /\ At("loadEffect")
    /\ st' = [st EXCEPT !.isPlaying = FALSE]
    /\ audioPlaying' = FALSE
    /\ audioVolume' = st.volume
    /\ playbackRate' = InitialRate(st)
    /\ \E s \in {"suspended", "running"} : ctxState' = s
    /\ oldCtxOpen' = (oldCtxOpen \/ ctxState \in {"suspended", "running"})
    /\ ctxRef' = TRUE
    /\ srcRef' = TRUE
    /\ edges' = LoadedEdges
    /\ filterGain' = EffectiveGain(st)
    /\ psActive' = st.pitchShiftEnabled
    /\ psShift' = InitialShift
    /\ graph' = "live"
    /\ Continue(Tail(todo))
    /\ UNCHANGED <<pageVars, pendingCommit, mounted, playerKey>>
    /\ LoadResets
    /\ UNCHANGED <<blockVars, fileIsWav, dirtyVars, dialogVars>>

\* the edges the cleanup leaves
CleanupEdges(E, hasSource) ==
    PitchShifterDisconnect(IF hasSource THEN Disconnect(E, Source) ELSE E)

\* the context's state after the cleanup
CleanupContext(state, hasContext) ==
    IF hasContext /\ state # "closed" THEN "closed" ELSE state

LoadCleanup ==
    /\ At("loadCleanup")
    /\ audioPlaying' = FALSE
    /\ edges' = CleanupEdges(edges, srcRef)
    /\ ctxState' = CleanupContext(ctxState, ctxRef)
    /\ graph' = "torn"
    /\ Continue(Tail(todo))
    /\ UNCHANGED <<pageVars, pendingCommit, refVars, playerVars, oldCtxOpen,
                   unitVars, playbackRate, audioVolume>>
    /\ UNCHANGED <<blockVars, elementVars, dirtyVars, dialogVars>>

----------------------------------------------------------------------------
\* AudioPlayer: the routing effect ([bassBoostEnabled, pitchShiftEnabled])

\* `if (!audioContext || !gainNode || !pitchShifter || !bassBoostNode || !sourceNode) return`
RoutingGuard == ctxRef /\ srcRef /\ graph = "live"

RoutingEffect ==
    /\ At("routingEffect")
    /\ IF RoutingGuard
       THEN /\ psActive' = st.pitchShiftEnabled
            /\ Continue(RoutingSteps(st.bassBoostEnabled) \o Tail(todo))
       ELSE /\ psActive' = psActive
            /\ Continue(Tail(todo))
    /\ UNCHANGED <<pageVars, pendingCommit, refVars, playerVars, graph, edges,
                   ctxState, oldCtxOpen, filterGain, psShift, audioVars>>
    /\ UNCHANGED <<blockVars, elementVars, dirtyVars, dialogVars>>

\* one connect or disconnect call of the routing effect
GraphStep(step, E) ==
    /\ At(step)
    /\ edges' = E
    /\ Continue(Tail(todo))
    /\ UNCHANGED <<pageVars, pendingCommit, refVars, playerVars, graph, ctxState,
                   oldCtxOpen, unitVars, audioVars>>
    /\ UNCHANGED <<blockVars, elementVars, dirtyVars, dialogVars>>

GainDisconnect == GraphStep("gainDisconnect", Disconnect(edges, InputGain))
BassDisconnect == GraphStep("bassDisconnect", Disconnect(edges, BassBoostFilter))
SourceDisconnect ==
    GraphStep("sourceDisconnect", IF srcRef THEN Disconnect(edges, Source) ELSE edges)
SourceConnect ==
    GraphStep("sourceConnect", IF srcRef THEN Connect(edges, Source, InputGain) ELSE edges)
GainConnect ==
    GraphStep("gainConnect",
              IF st.bassBoostEnabled THEN Connect(edges, InputGain, BassBoostFilter)
              ELSE Connect(edges, InputGain, PSInput))
BassConnect == GraphStep("bassConnect", Connect(edges, BassBoostFilter, PSInput))
PitchConnect == GraphStep("pitchConnect", Connect(edges, PSOutput, Destination))

----------------------------------------------------------------------------
\* AudioPlayer: the parameter effects

PitchEffect ==
    /\ At("pitchEffect")
    /\ psActive' = st.pitchShiftEnabled
    /\ psShift' = PitchRatio(st.pitchValue)
    /\ Continue(Tail(todo))
    /\ UNCHANGED <<pageVars, pendingCommit, refVars, playerVars, graph, edges,
                   ctxState, oldCtxOpen, filterGain, audioVars>>
    /\ UNCHANGED <<blockVars, elementVars, dirtyVars, dialogVars>>

SpeedEffect ==
    /\ At("speedEffect")
    /\ playbackRate' = IF st.speedControlEnabled THEN st.speedValue ELSE DefaultSpeed
    /\ Continue(Tail(todo))
    /\ UNCHANGED <<pageVars, pendingCommit, refVars, playerVars, graph, edges,
                   ctxState, oldCtxOpen, unitVars, audioPlaying, audioVolume>>
    /\ UNCHANGED <<blockVars, elementVars, dirtyVars, dialogVars>>

VolumeEffect ==
    /\ At("volumeEffect")
    /\ audioVolume' = st.volume
    /\ Continue(Tail(todo))
    /\ UNCHANGED <<pageVars, pendingCommit, refVars, playerVars, graph, edges,
                   ctxState, oldCtxOpen, unitVars, audioPlaying, playbackRate>>
    /\ UNCHANGED <<blockVars, elementVars, dirtyVars, dialogVars>>

BassGainEffect ==
    /\ At("bassGainEffect")
    /\ filterGain' = EffectiveGain(st)
    /\ Continue(Tail(todo))
    /\ UNCHANGED <<pageVars, pendingCommit, refVars, playerVars, graph, edges,
                   ctxState, oldCtxOpen, psActive, psShift, audioVars>>
    /\ UNCHANGED <<blockVars, elementVars, dirtyVars, dialogVars>>

\* JavaScript's `value || fallback` on a number
OrElse(value, fallback) == IF value = 0 THEN fallback ELSE value

\* the state the apply-loaded-project effect sets from a stored record
AppliedState(s, settings) ==
    [ s EXCEPT !.bassBoostEnabled = settings.bass_enabled,
               !.bassBoostAmount = OrElse(settings.bass_amount, DefaultBassAmount),
               !.speedControlEnabled = settings.speed_enabled,
               !.speedValue = OrElse(settings.speed, DefaultSpeed),
               !.pitchShiftEnabled = settings.pitch_enabled,
               !.pitchValue = OrElse(settings.semitones, DefaultSemitones),
               !.volume = OrElse(settings.volume, DefaultVolume) ]

\* the apply-loaded-project effect ([loadedProject]): the baseline is the record
\* of the values it has just set
ApplyProjectEffect ==
    /\ At("applyProjectEffect")
    /\ IF loadedProject.id # 0
       THEN /\ st' = AppliedState(st, loadedProject.settings)
            /\ originalEffectsSettings' = CurrentSettings(st')
            /\ Continue(Tail(todo) \o ParameterEffectsAfter(st, st')
                        \o When(originalEffectsSettings' # originalEffectsSettings
                                  \/ CurrentSettings(st') # CurrentSettings(st),
                                "unsavedChangesEffect"))
       ELSE /\ st' = st
            /\ originalEffectsSettings' = NoSettings
            /\ Continue(Tail(todo)
                        \o When(originalEffectsSettings # NoSettings,
                                "unsavedChangesEffect"))
    /\ hasUnsavedChanges' = FALSE
    /\ UNCHANGED <<pageVars, pendingCommit, refVars, mounted, playerKey, deviceVars>>
    /\ UNCHANGED <<blockVars, elementVars, pageHasUnsavedChanges, dialogVars>>

----------------------------------------------------------------------------
\* AudioPlayer: the unsaved-changes flag

\* the tolerance of isFloatEqual, in thousandths
Tolerance == 1

Abs(x) == IF x < 0 THEN -x ELSE x

\* `Math.abs(a - b) < tolerance`
isFloatEqual(a, b) == Abs(a - b) < Tolerance

\* hasActiveEffects without its test of the volume
hasActiveEffectsIgnoringVolume(s) ==
    s.bassBoostEnabled \/ s.speedControlEnabled \/ s.pitchShiftEnabled

\* hasActiveEffects
hasActiveEffects(s) ==
    s.bassBoostEnabled \/ s.speedControlEnabled \/ s.pitchShiftEnabled
        \/ s.volume # DefaultVolume

\* the comparison of the live settings with the baseline
SettingsChanged(current, original) ==
    \/ current.bass_enabled # original.bass_enabled
    \/ current.bass_amount # original.bass_amount
    \/ current.speed_enabled # original.speed_enabled
    \/ ~isFloatEqual(current.speed, original.speed)
    \/ current.pitch_enabled # original.pitch_enabled
    \/ current.semitones # original.semitones
    \/ ~isFloatEqual(current.volume, original.volume)

\* the value checkForUnsavedChanges computes
checkForUnsavedChanges(s, project, original) ==
    IF project.id = 0 \/ original = NoSettings
    THEN hasActiveEffects(s)
    ELSE SettingsChanged(CurrentSettings(s), original)

\* the effect that calls checkForUnsavedChanges; onUnsavedChangesChange is the
\* page's setHasUnsavedChanges
UnsavedChangesEffect ==
    /\ At("unsavedChangesEffect")
    /\ hasUnsavedChanges' = checkForUnsavedChanges(st, loadedProject, originalEffectsSettings)
    /\ pageHasUnsavedChanges' = hasUnsavedChanges'
    /\ Continue(Tail(todo))
    /\ UNCHANGED <<pageVars, pendingCommit, refVars, playerVars, deviceVars>>
    /\ UNCHANGED <<blockVars, elementVars, originalEffectsSettings, dialogVars>>

\* `if (triggerSaveDialog) setShowSaveDialog(true)` ([triggerSaveDialog])
SaveDialogEffect ==
    /\ At("saveDialogEffect")
    /\ showSaveDialog' = (showSaveDialog \/ triggerSaveDialog)
    /\ Continue(Tail(todo))
    /\ UNCHANGED <<pageVars, pendingCommit, refVars, playerVars, deviceVars>>
    /\ UNCHANGED <<blockVars, elementVars, dirtyVars, isSaving, saveError, leaveVars>>

----------------------------------------------------------------------------
\* AudioPlayer: event handlers

\* a handler sets the state to `new`; React then re-runs the effects that depend on it
Handler(name, new) ==
    /\ mounted
    /\ Idle
    /\ st' = new
    /\ Begin(name, EffectsAfter(st, new))
    /\ UNCHANGED <<pageVars, pendingCommit, refVars, mounted, playerKey, deviceVars>>
    /\ UNCHANGED <<blockVars, elementVars, dirtyVars, dialogVars>>

handleTogglePitchShift ==
    Handler("handleTogglePitchShift",
            [st EXCEPT !.pitchShiftEnabled = ~@,
                       !.pitchValue = IF ~st.pitchShiftEnabled THEN 0 ELSE @])

handleToggleSpeedControl ==
    Handler("handleToggleSpeedControl",
            [st EXCEPT !.speedControlEnabled = ~@,
                       !.speedValue = IF ~st.speedControlEnabled THEN DefaultSpeed ELSE @])

\* a bass toggle that also resets the semitones when it enables
handleToggleBassBoostResetsPitch ==
    Handler("handleToggleBassBoost",
            [st EXCEPT !.bassBoostEnabled = ~@,
                       !.bassBoostAmount =
                           IF ~st.bassBoostEnabled THEN DefaultBassAmount ELSE @,
                       !.pitchValue = IF ~st.bassBoostEnabled THEN 0 ELSE @])

handleToggleBassBoost ==
    Handler("handleToggleBassBoost",
            [st EXCEPT !.bassBoostEnabled = ~@,
                       !.bassBoostAmount =
                           IF ~st.bassBoostEnabled THEN DefaultBassAmount ELSE @])

\* the sliders are rendered only while their effect is enabled
setPitchValue(v) ==
    st.pitchShiftEnabled /\ Handler("setPitchValue", [st EXCEPT !.pitchValue = v])
setSpeedValue(v) ==
    st.speedControlEnabled /\ Handler("setSpeedValue", [st EXCEPT !.speedValue = v])
setBassBoostAmount(v) ==
    st.bassBoostEnabled /\ Handler("setBassBoostAmount", [st EXCEPT !.bassBoostAmount = v])
setVolume(v) == Handler("setVolume", [st EXCEPT !.volume = v])

\* "Reset All" that also puts the volume back to its default
resetAllEffectsWithVolume ==
    Handler("resetAllEffects",
            [st EXCEPT !.pitchShiftEnabled = FALSE,
                       !.speedControlEnabled = FALSE,
                       !.bassBoostEnabled = FALSE,
                       !.pitchValue = DefaultSemitones,
                       !.speedValue = DefaultSpeed,
                       !.bassBoostAmount = DefaultBassAmount,
                       !.volume = DefaultVolume])

\* "Reset All"
resetAllEffects ==
    Handler("resetAllEffects",
            [st EXCEPT !.pitchShiftEnabled = FALSE,
                       !.speedControlEnabled = FALSE,
                       !.bassBoostEnabled = FALSE,
                       !.pitchValue = DefaultSemitones,
                       !.speedValue = DefaultSpeed,
                       !.bassBoostAmount = DefaultBassAmount])

\* a reset to the project's defaults that leaves the volume where it is
ProjectDefaultsKeepVolume(s, original) ==
    IF original = NoSettings THEN s
    ELSE [ s EXCEPT !.bassBoostEnabled = original.bass_enabled,
                    !.bassBoostAmount = original.bass_amount,
                    !.speedControlEnabled = original.speed_enabled,
                    !.speedValue = original.speed,
                    !.pitchShiftEnabled = original.pitch_enabled,
                    !.pitchValue = original.semitones ]

\* the state resetToProjectDefaults sets: `if (!originalEffectsSettings) return`
ProjectDefaults(s, original) ==
    IF original = NoSettings THEN s
    ELSE [ s EXCEPT !.bassBoostEnabled = original.bass_enabled,
                    !.bassBoostAmount = original.bass_amount,
                    !.speedControlEnabled = original.speed_enabled,
                    !.speedValue = original.speed,
                    !.pitchShiftEnabled = original.pitch_enabled,
                    !.pitchValue = original.semitones,
                    !.volume = original.volume ]

\* "Reset to project defaults": rendered for a loaded project, disabled while
\* nothing is unsaved
resetToProjectDefaults ==
    /\ loadedProject.id # 0
    /\ hasUnsavedChanges
    /\ Handler("resetToProjectDefaults", ProjectDefaults(st, originalEffectsSettings))

\* audio.play() may be refused by the browser
togglePlay ==
    /\ mounted
    /\ Idle
    /\ graph = "live"
    /\ ctxState' = IF ctxRef /\ ctxState = "suspended" THEN "running" ELSE ctxState
    /\ IF st.isPlaying
       THEN audioPlaying' = FALSE
       ELSE \E started \in BOOLEAN : audioPlaying' = started
    /\ st' = [st EXCEPT !.isPlaying = ~@]
    /\ UNCHANGED <<pageVars, pendingCommit, refVars, mounted, playerKey, graph, edges,
                   oldCtxOpen, unitVars, playbackRate, audioVolume, todo, task>>
    /\ UNCHANGED <<blockVars, elementVars, dirtyVars, dialogVars>>

----------------------------------------------------------------------------
\* The audio element and the audio callback

\* the track reaches its end
AudioEnded ==
    /\ todo = <<>>
    /\ audioPlaying
    /\ audioPlaying' = FALSE
    /\ UNCHANGED <<pageVars, pendingCommit, refVars, playerVars, graph, edges, ctxState,
                   oldCtxOpen, unitVars, playbackRate, audioVolume, todo, task>>
    /\ UNCHANGED <<blockVars, elementVars, dirtyVars, dialogVars>>

\* a context delivers audio blocks while it is running
Delivers(from) ==
    \/ from = "current" /\ ctxState = "running"
    \/ from = "earlier" /\ oldCtxOpen

\* PitchShifter.processAudio is called for a block
AudioCallback(from) ==
    /\ CallbackMayRun
    /\ Delivers(from)
    /\ UNCHANGED <<pageVars, pendingCommit, refVars, playerVars, graph, edges, ctxState,
                   oldCtxOpen, unitVars, audioVars, todo, task>>
    /\ UNCHANGED <<blockVars, elementVars, dirtyVars, dialogVars>>

----------------------------------------------------------------------------
\* PitchShifter on its own: the setters and the callback on one block

\* everything but the pitch unit's fields and the block
besidesPitchShifter == <<pageVars, pendingCommit, refVars, playerVars, graph, edges,
                         ctxState, oldCtxOpen, filterGain, audioVars, todo, task,
                         elementVars, dirtyVars, dialogVars>>

setPitchShift(semitones) ==
    /\ psShift' = PitchRatio(semitones)
    /\ UNCHANGED <<psActive, blockVars, besidesPitchShifter>>

setActive(isActive) ==
    /\ psActive' = isActive
    /\ UNCHANGED <<psShift, blockVars, besidesPitchShifter>>

\* an AudioProcessingEvent with `block` as input and a silent output buffer of the
\* same length; processAudio fills the output
processAudio(block) ==
    /\ inputData' = block
    /\ outputData' = ProcessAudio(psActive, psShift, block, Silence)
    /\ lastRead' = ProcessAudioReads(psActive, psShift, block, Silence)
    /\ UNCHANGED <<psActive, psShift, besidesPitchShifter>>

NextPitchShifter ==
    \/ \E semitones \in SemitoneRange : setPitchShift(semitones)
    \/ \E isActive \in BOOLEAN : setActive(isActive)
    \/ \E block \in Blocks : processAudio(block)

SpecPitchShifter == Init /\ [][NextPitchShifter]_vars

----------------------------------------------------------------------------
\* The audio element on its own: metadata, time updates, seeking, load events

\* everything but the element's transport state and load flags
besidesElement == <<pageVars, pendingCommit, refVars, playerVars, deviceVars, todo, task,
                    blockVars, dirtyVars, dialogVars>>

\* audio.duration of the files, in seconds
Durations == {90, 200}
\* how far playback has advanced when a timeupdate fires, in percent
Progress == {25, 100}
\* clientX - rect.left and rect.width of a click on the seek bar, in pixels
SeekOffsets == {-10, 0, 25, 50, 60, 100, 120}
SeekWidths == {50, 100}

\* the load effect's part for the element: resets, and the file it is given
LoadAudio(isWav) ==
    /\ LoadResets
    /\ fileIsWav' = isWav
    /\ UNCHANGED besidesElement

\* loadedmetadata: setDuration(audio.duration)
onMetadata(audioDuration) ==
    /\ duration = 0
    /\ duration' = audioDuration
    /\ UNCHANGED <<currentTime, seekValue, audioTime, mediaVars, besidesElement>>

\* playback advances and timeupdate fires
onTimeUpdate(percent) ==
    /\ duration # 0
    /\ audioTime' = percent * duration
    /\ currentTime' = audioTime'
    /\ seekValue' = audioTime' \div duration
    /\ UNCHANGED <<duration, mediaVars, besidesElement>>

\* a seek that maps the click straight to a percentage
PercentageUnclamped(x, width) == (x * 100) \div width

Min(a, b) == IF a < b THEN a ELSE b
Max(a, b) == IF a > b THEN a ELSE b

\* Math.max(0, Math.min(100, (x / rect.width) * 100))
Percentage(x, width) == Max(0, Min(100, (x * 100) \div width))

handleSeek(x, width) ==
    /\ IF duration = 0
       THEN UNCHANGED transportVars
       ELSE /\ seekValue' = Percentage(x, width)
            /\ audioTime' = Percentage(x, width) * duration
            /\ currentTime' = audioTime'
            /\ UNCHANGED duration
    /\ UNCHANGED <<mediaVars, besidesElement>>

\* canplaythrough, canplay, loadeddata
onLoaded ==
    /\ hasSuccessfullyLoaded' = TRUE
    /\ UNCHANGED <<fileIsWav, hasReportedError, reported, warned, transportVars,
                   besidesElement>>

\* MediaError.code: MEDIA_ERR_ABORTED .. MEDIA_ERR_SRC_NOT_SUPPORTED; 0 when
\* audio.error is null
MEDIA_ERR_ABORTED == 1
MEDIA_ERR_NETWORK == 2
MEDIA_ERR_DECODE == 3
MEDIA_ERR_SRC_NOT_SUPPORTED == 4
ErrorCodes == 0..4

\* the message the switch chooses, and whether it is reported
ErrorMessage(code) ==
    CASE code = MEDIA_ERR_ABORTED -> "aborted"
      [] code = MEDIA_ERR_NETWORK -> "network"
      [] code = MEDIA_ERR_DECODE -> "decode"
      [] code = MEDIA_ERR_SRC_NOT_SUPPORTED -> "unsupported-format"
      [] OTHER -> "unknown"
ShouldReportError(code, isWav) == ~(code = MEDIA_ERR_SRC_NOT_SUPPORTED /\ isWav)

\* an error handler that does not latch hasReportedError
handleAudioErrorNoLatch(code) ==
    /\ IF hasSuccessfullyLoaded \/ hasReportedError
       THEN UNCHANGED <<hasReportedError, reported>>
       ELSE /\ hasReportedError' = FALSE
            /\ reported' = IF code # 0 /\ ShouldReportError(code, fileIsWav)
                            THEN Append(reported, ErrorMessage(code)) ELSE reported
    /\ UNCHANGED <<fileIsWav, hasSuccessfullyLoaded, warned, transportVars,
                   besidesElement>>

\* the element's error event
handleAudioError(code) ==
    /\ IF hasSuccessfullyLoaded \/ hasReportedError
       THEN UNCHANGED <<hasReportedError, reported>>
       ELSE /\ hasReportedError' = TRUE
            /\ reported' = IF code # 0 /\ ShouldReportError(code, fileIsWav)
                            THEN Append(reported, ErrorMessage(code)) ELSE reported
    /\ UNCHANGED <<fileIsWav, hasSuccessfullyLoaded, warned, transportVars,
                   besidesElement>>

\* the 5-second timer of the load effect
loadTimeout ==
    /\ warned' = (warned \/ (~hasSuccessfullyLoaded /\ ~hasReportedError))
    /\ UNCHANGED <<fileIsWav, hasSuccessfullyLoaded, hasReportedError, reported,
                   transportVars, besidesElement>>

NextAudioElement ==
    \/ \E isWav \in BOOLEAN : LoadAudio(isWav)
    \/ \E audioDuration \in Durations : onMetadata(audioDuration)
    \/ \E percent \in Progress : onTimeUpdate(percent)
    \/ \E x \in SeekOffsets, width \in SeekWidths : handleSeek(x, width)
    \/ onLoaded
    \/ \E code \in ErrorCodes : handleAudioError(code)
    \/ loadTimeout

SpecAudioElement == Init /\ [][NextAudioElement]_vars

----------------------------------------------------------------------------
\* StudioPage: what it renders

\* the page renders an AudioPlayer (not the spinner, the error or the uploader)
RendersPlayer == ~loadingProject /\ ~loadError /\ audioFile # NoFile
RendersUploader == ~loadingProject /\ ~loadError /\ audioFile = NoFile

\* key={`${audioFile.name}-${audioFile.size}-${loadedProject?.id || 'new'}`}
PlayerKey == <<audioFile, loadedProject.id>>

\* what React does to the player when it renders the page's pending change
PlayerSteps ==
    IF mounted /\ ~RendersPlayer THEN <<"loadCleanup">>
    ELSE IF mounted /\ PlayerKey # playerKey THEN <<"loadCleanup">> \o MountEffects
    ELSE IF mounted /\ pendingCommit = "file" THEN FileChangeEffects
    ELSE IF ~mounted /\ RendersPlayer THEN MountEffects
    ELSE <<>>

\* React renders the page and flushes the effects: the player's first, then the
\* page's own effect when its dependencies [searchParams, loadingProject] changed
Commit ==
    /\ todo = <<>>
    /\ pendingCommit # "none"
    /\ pendingCommit' = "none"
    /\ mounted' = RendersPlayer
    /\ playerKey' = IF RendersPlayer THEN PlayerKey ELSE playerKey
    /\ st' = IF mounted /\ RendersPlayer /\ PlayerKey = playerKey
             THEN st ELSE InitialState   \* a new instance starts from useState's defaults
    /\ IF mounted /\ RendersPlayer /\ PlayerKey = playerKey
       THEN UNCHANGED <<originalEffectsSettings, hasUnsavedChanges, saveDialogVars>>
       ELSE /\ originalEffectsSettings' = NoSettings
            /\ hasUnsavedChanges' = FALSE
            /\ showSaveDialog' = FALSE
            /\ isSaving' = FALSE
            /\ saveError' = FALSE
    /\ Begin(IF RendersPlayer /\ PlayerSteps # <<>> THEN "load" ELSE "commit",
             PlayerSteps \o When(pendingCommit = "loading", "urlEffect"))
    /\ UNCHANGED <<pageVars, refVars, deviceVars>>
    /\ UNCHANGED <<blockVars, elementVars, pageHasUnsavedChanges, leaveVars>>

----------------------------------------------------------------------------
\* StudioPage: loadProject and the effect that calls it

\* loadProject up to its first await
LoadProjectStart(projectId) ==
    /\ loadingProject' = TRUE
    /\ loadError' = FALSE
    /\ lpId' = projectId
    /\ pendingCommit' = "loading"
    /\ IF ctxRef /\ ctxState # "closed"
       THEN /\ ctxState' = "closed"
            /\ lpPc' = "awaitClose"
            /\ UNCHANGED <<refVars, loadedProjectIdRef>>
       ELSE /\ ctxRef' = FALSE
            /\ srcRef' = FALSE
            /\ loadedProjectIdRef' = projectId
            /\ lpPc' = "awaitProject"
            /\ UNCHANGED ctxState

\* the load-from-URL effect
UrlEffect ==
    /\ At("urlEffect")
    /\ IF urlProject # 0 /\ urlProject # loadedProjectIdRef /\ ~loadingProject
       THEN LoadProjectStart(urlProject)
       ELSE UNCHANGED <<loadingProject, loadError, lpId, pendingCommit, ctxState, lpPc,
                        refVars, loadedProjectIdRef>>
    /\ Continue(Tail(todo))
    /\ UNCHANGED <<urlProject, audioFile, loadedProject, lpProject, validating,
                   playerVars, graph, edges, oldCtxOpen, unitVars, audioVars>>
    /\ UNCHANGED <<blockVars, elementVars, dirtyVars, dialogVars>>

\* loadProject resumes after `await audioContextRef.current.close()`; the promise
\* may resolve before React has rendered loadingProject
LoadAfterClose ==
    /\ todo = <<>>
    /\ lpPc = "awaitClose"
    /\ ctxRef' = FALSE
    /\ srcRef' = FALSE
    /\ loadedProjectIdRef' = lpId
    /\ lpPc' = "awaitProject"
    /\ UNCHANGED <<urlProject, audioFile, loadedProject, loadingProject, loadError,
                   lpId, lpProject, validating, pendingCommit, playerVars, deviceVars,
                   todo, task>>
    /\ UNCHANGED <<blockVars, elementVars, dirtyVars, dialogVars>>

\* getProject resolves with a project
GetProjectResolves(settings) ==
    /\ Idle
    /\ lpPc = "awaitProject"
    /\ lpProject' = settings
    /\ lpPc' = "awaitBlob"
    /\ UNCHANGED <<urlProject, audioFile, loadedProject, loadingProject, loadError,
                   loadedProjectIdRef, lpId, validating, pendingCommit, refVars,
                   playerVars, deviceVars, todo, task>>
    /\ UNCHANGED <<blockVars, elementVars, dirtyVars, dialogVars>>

\* getAudioFileBlob resolves: the project and its file are applied
LoadProjectSucceeds ==
    /\ Idle
    /\ lpPc = "awaitBlob"
    /\ loadedProject' = [id |-> lpId, settings |-> lpProject]
    /\ audioFile' = lpId
    /\ loadingProject' = FALSE
    /\ lpPc' = "idle"
    /\ lpId' = 0
    /\ lpProject' = NoSettings
    /\ pendingCommit' = "loading"
    /\ UNCHANGED <<urlProject, loadError, loadedProjectIdRef, validating, refVars,
                   playerVars, deviceVars, todo, task>>
    /\ UNCHANGED <<blockVars, elementVars, dirtyVars, dialogVars>>

\* getProject or getAudioFileBlob throws, or the project is not found
LoadProjectFails ==
    /\ Idle
    /\ lpPc \in {"awaitProject", "awaitBlob"}
    /\ loadError' = TRUE
    /\ loadedProjectIdRef' = 0
    /\ loadingProject' = FALSE
    /\ lpPc' = "idle"
    /\ lpId' = 0
    /\ lpProject' = NoSettings
    /\ pendingCommit' = "loading"
    /\ UNCHANGED <<urlProject, audioFile, loadedProject, validating, refVars,
                   playerVars, deviceVars, todo, task>>
    /\ UNCHANGED <<blockVars, elementVars, dirtyVars, dialogVars>>

\* the project id in the URL changes
Navigate(projectId) ==
    /\ Idle
    /\ projectId # urlProject
    /\ urlProject' = projectId
    /\ Begin("navigate", <<"urlEffect">>)
    /\ UNCHANGED <<audioFile, loadedProject, loadingProject, loadError,
                   loadedProjectIdRef, lpPc, lpId, lpProject, validating, pendingCommit,
                   refVars, playerVars, deviceVars>>
    /\ UNCHANGED <<blockVars, elementVars, dirtyVars, dialogVars>>

\* "Back to Studio" on the error screen
handleReset ==
    /\ Idle
    /\ loadError /\ ~loadingProject
    /\ audioFile' = NoFile
    /\ loadedProject' = NoProject
    /\ loadError' = FALSE
    /\ loadedProjectIdRef' = 0
    /\ urlProject' = 0
    /\ pageHasUnsavedChanges' = FALSE
    /\ pendingCommit' = "plain"
    /\ UNCHANGED <<loadingProject, lpPc, lpId, lpProject, validating, refVars,
                   playerVars, deviceVars, todo, task>>
    /\ UNCHANGED <<blockVars, elementVars, originalEffectsSettings, hasUnsavedChanges,
                   dialogVars>>

----------------------------------------------------------------------------
\* AudioUploader: a dropped file is validated, then handed to the page

handleFileChange ==
    /\ Idle
    /\ RendersUploader
    /\ validating < MaxValidating
    /\ validating' = validating + 1
    /\ UNCHANGED <<urlProject, audioFile, loadedProject, loadingProject, loadError,
                   loadedProjectIdRef, lpPc, lpId, lpProject, pendingCommit, refVars,
                   playerVars, deviceVars, todo, task>>
    /\ UNCHANGED <<blockVars, elementVars, dirtyVars, dialogVars>>

\* the validation succeeds: onAudioLoaded(null, file), that is setAudioFile(file)
handleAudioLoaded ==
    /\ Idle
    /\ validating > 0
    /\ validating' = validating - 1
    /\ audioFile' = UploadName
    /\ pendingCommit' = "file"
    /\ UNCHANGED <<urlProject, loadedProject, loadingProject, loadError,
                   loadedProjectIdRef, lpPc, lpId, lpProject, refVars, playerVars,
                   deviceVars, todo, task>>
    /\ UNCHANGED <<blockVars, elementVars, dirtyVars, dialogVars>>

\* the validation fails or times out
UploadRejected ==
    /\ Idle
    /\ validating > 0
    /\ validating' = validating - 1
    /\ UNCHANGED <<urlProject, audioFile, loadedProject, loadingProject, loadError,
                   loadedProjectIdRef, lpPc, lpId, lpProject, pendingCommit, refVars,
                   playerVars, deviceVars, todo, task>>
    /\ UNCHANGED <<blockVars, elementVars, dirtyVars, dialogVars>>

----------------------------------------------------------------------------
Next ==
    \/ Commit
    \/ LoadEffect
    \/ LoadCleanup
    \/ RoutingEffect
    \/ GainDisconnect
    \/ BassDisconnect
    \/ SourceDisconnect
    \/ SourceConnect
    \/ GainConnect
    \/ BassConnect
    \/ PitchConnect
    \/ PitchEffect
    \/ SpeedEffect
    \/ VolumeEffect
    \/ BassGainEffect
    \/ UnsavedChangesEffect
    \/ SaveDialogEffect
    \/ ApplyProjectEffect
    \/ handleTogglePitchShift
    \/ handleToggleSpeedControl
    \/ handleToggleBassBoost
    \/ \E v \in SemitoneChoices : setPitchValue(v)
    \/ \E v \in SpeedChoices : setSpeedValue(v)
    \/ \E v \in BassAmountChoices : setBassBoostAmount(v)
    \/ \E v \in VolumeChoices : setVolume(v)
    \/ resetAllEffects
    \/ resetToProjectDefaults
    \/ togglePlay
    \/ AudioEnded
    \/ \E from \in {"current", "earlier"} : AudioCallback(from)
    \/ UrlEffect
    \/ LoadAfterClose
    \/ \E settings \in StoredSettings : GetProjectResolves(settings)
    \/ LoadProjectSucceeds
    \/ LoadProjectFails
    \/ \E projectId \in Projects \cup {0} : Navigate(projectId)
    \/ handleReset
    \/ handleFileChange
    \/ handleAudioLoaded
    \/ UploadRejected

Spec == Init /\ [][Next]_vars

----------------------------------------------------------------------------
\* StudioPage: leaving the studio, and the save dialog of the player

\* the props StudioPage passes to AudioPlayer: onSaveComplete is not among them
onSaveCompleteProvided == FALSE

\* the studio page is still the current route
OnStudio == pushed = NoUrl

\* "Back to Dashboard"
handleNavigation(url) ==
    /\ Idle
    /\ OnStudio
    /\ ~showUnsavedDialog
    /\ IF pageHasUnsavedChanges
       THEN /\ pendingNavigation' = url
            /\ showUnsavedDialog' = TRUE
            /\ UNCHANGED <<isExiting, pushTimer>>
       ELSE /\ isExiting' = TRUE
            /\ pushTimer' = [url |-> url, clearsPending |-> FALSE]
            /\ UNCHANGED <<pendingNavigation, showUnsavedDialog>>
    /\ UNCHANGED <<pageVars, pendingCommit, refVars, playerVars, deviceVars, todo, task>>
    /\ UNCHANGED <<blockVars, elementVars, dirtyVars, saveDialogVars, triggerSaveDialog,
                   persisted, pushed>>

\* "Save Changes" in the unsaved-changes dialog; the player's effect on
\* [triggerSaveDialog] runs when the flag has changed
handleSaveAndNavigate ==
    /\ Idle
    /\ OnStudio
    /\ showUnsavedDialog
    /\ showUnsavedDialog' = FALSE
    /\ triggerSaveDialog' = TRUE
    /\ Begin("handleSaveAndNavigate",
             When(mounted /\ ~triggerSaveDialog, "saveDialogEffect"))
    /\ UNCHANGED <<pageVars, pendingCommit, refVars, playerVars, deviceVars>>
    /\ UNCHANGED <<blockVars, elementVars, dirtyVars, saveDialogVars, pendingNavigation,
                   isExiting, pushTimer, persisted, pushed>>

\* "Discard Changes"
handleDiscardAndNavigate ==
    /\ Idle
    /\ OnStudio
    /\ showUnsavedDialog
    /\ showUnsavedDialog' = FALSE
    /\ pageHasUnsavedChanges' = FALSE
    /\ IF pendingNavigation # NoUrl
       THEN /\ isExiting' = TRUE
            /\ pushTimer' = [url |-> pendingNavigation, clearsPending |-> TRUE]
       ELSE UNCHANGED <<isExiting, pushTimer>>
    /\ UNCHANGED <<pageVars, pendingCommit, refVars, playerVars, deviceVars, todo, task>>
    /\ UNCHANGED <<blockVars, elementVars, originalEffectsSettings, hasUnsavedChanges,
                   saveDialogVars, pendingNavigation, triggerSaveDialog, persisted,
                   pushed>>

\* "Cancel", the dialog's onClose
handleCancelNavigation ==
    /\ Idle
    /\ OnStudio
    /\ showUnsavedDialog
    /\ showUnsavedDialog' = FALSE
    /\ pendingNavigation' = NoUrl
    /\ UNCHANGED <<pageVars, pendingCommit, refVars, playerVars, deviceVars, todo, task>>
    /\ UNCHANGED <<blockVars, elementVars, dirtyVars, saveDialogVars, triggerSaveDialog,
                   isExiting, pushTimer, persisted, pushed>>

\* the 500 ms timer of a navigation fires
PushTimerFires ==
    /\ todo = <<>>
    /\ OnStudio
    /\ pushTimer # NoTimer
    /\ pushed' = pushTimer.url
    /\ pendingNavigation' = IF pushTimer.clearsPending THEN NoUrl ELSE pendingNavigation
    /\ pushTimer' = NoTimer
    /\ UNCHANGED <<pageVars, pendingCommit, refVars, playerVars, deviceVars, todo, task>>
    /\ UNCHANGED <<blockVars, elementVars, dirtyVars, saveDialogVars, showUnsavedDialog,
                   triggerSaveDialog, isExiting, persisted>>

\* SaveProjectDialog.handleSave up to its await (the project name is filled in)
handleSave ==
    /\ Idle
    /\ OnStudio
    /\ mounted
    /\ showSaveDialog
    /\ ~isSaving
    /\ isSaving' = TRUE
    /\ saveError' = FALSE
    /\ UNCHANGED <<pageVars, pendingCommit, refVars, playerVars, deviceVars, todo, task>>
    /\ UNCHANGED <<blockVars, elementVars, dirtyVars, showSaveDialog, leaveVars>>

\* StudioPage.handleSaveCompleteWithNavigation, handleProjectUpdated and
\* handleProjectCopied, as handleSaveComplete chooses among them
NavigationAfterSave(wasUpdate) ==
    IF triggerSaveDialog
    THEN /\ triggerSaveDialog' = FALSE
         /\ pageHasUnsavedChanges' = FALSE
         /\ IF pendingNavigation # NoUrl
            THEN /\ isExiting' = TRUE
                 /\ pushTimer' = [url |-> pendingNavigation, clearsPending |-> TRUE]
            ELSE UNCHANGED <<isExiting, pushTimer>>
    ELSE IF wasUpdate
    THEN /\ isExiting' = TRUE
         /\ pushTimer' = [url |-> Dashboard, clearsPending |-> FALSE]
         /\ UNCHANGED <<triggerSaveDialog, pageHasUnsavedChanges>>
    ELSE IF loadedProject.id # 0
    THEN /\ isExiting' = TRUE
         /\ pushTimer' = [url |-> CopiedProject, clearsPending |-> FALSE]
         /\ UNCHANGED <<triggerSaveDialog, pageHasUnsavedChanges>>
    ELSE UNCHANGED <<triggerSaveDialog, pageHasUnsavedChanges, isExiting, pushTimer>>

\* AudioPlayer.handleSaveComplete, then the dialog's onClose and resetDialog
handleSaveComplete(wasUpdate) ==
    /\ hasUnsavedChanges' = FALSE
    /\ originalEffectsSettings' = CurrentSettings(st)
    /\ NavigationAfterSave(wasUpdate)
    /\ showSaveDialog' = FALSE
    /\ saveError' = FALSE
    /\ Begin("handleSaveComplete",
             When(originalEffectsSettings' # originalEffectsSettings,
                  "unsavedChangesEffect")
             \o When(triggerSaveDialog' # triggerSaveDialog, "saveDialogEffect"))

\* updateProject or createProject resolves.  handleSaveComplete begins with
\* `onSaveComplete(projectId)`: when the prop is undefined the call throws, the
\* dialog's catch shows the message and the dialog stays open
SaveSucceeds(wasUpdate) ==
    /\ Idle
    /\ OnStudio
    /\ mounted
    /\ isSaving
    /\ wasUpdate => loadedProject.id # 0
    /\ isSaving' = FALSE
    /\ persisted' = TRUE
    /\ IF onSaveCompleteProvided
       THEN handleSaveComplete(wasUpdate)
       ELSE /\ saveError' = TRUE
            /\ UNCHANGED <<dirtyVars, showSaveDialog, triggerSaveDialog, isExiting,
                           pushTimer, todo, task>>
    /\ UNCHANGED <<pageVars, pendingCommit, refVars, playerVars, deviceVars>>
    /\ UNCHANGED <<blockVars, elementVars, showUnsavedDialog, pendingNavigation, pushed>>

\* updateProject or createProject throws
SaveFails ==
    /\ Idle
    /\ OnStudio
    /\ mounted
    /\ isSaving
    /\ isSaving' = FALSE
    /\ saveError' = TRUE
    /\ UNCHANGED <<pageVars, pendingCommit, refVars, playerVars, deviceVars, todo, task>>
    /\ UNCHANGED <<blockVars, elementVars, dirtyVars, showSaveDialog, leaveVars>>

\* the save dialog's close button: onClose is `setShowSaveDialog(false);
\* onSaveDialogClose?.()`, and the page passes no onSaveDialogClose
handleClose ==
    /\ Idle
    /\ OnStudio
    /\ mounted
    /\ showSaveDialog
    /\ ~isSaving
    /\ showSaveDialog' = FALSE
    /\ saveError' = FALSE
    /\ UNCHANGED <<pageVars, pendingCommit, refVars, playerVars, deviceVars, todo, task>>
    /\ UNCHANGED <<blockVars, elementVars, dirtyVars, isSaving, leaveVars>>

\* one session in the studio: a file is uploaded or a project is opened, bass
\* boost and the volume are changed, and the user leaves for the dashboard
NextStudio ==
    \/ Commit
    \/ LoadEffect
    \/ LoadCleanup
    \/ RoutingEffect
    \/ GainDisconnect
    \/ BassDisconnect
    \/ SourceDisconnect
    \/ SourceConnect
    \/ GainConnect
    \/ BassConnect
    \/ PitchConnect
    \/ PitchEffect
    \/ SpeedEffect
    \/ VolumeEffect
    \/ BassGainEffect
    \/ UnsavedChangesEffect
    \/ SaveDialogEffect
    \/ ApplyProjectEffect
    \/ handleToggleBassBoost
    \/ \E v \in VolumeChoices : setVolume(v)
    \/ resetToProjectDefaults
    \/ UrlEffect
    \/ LoadAfterClose
    \/ \E settings \in StoredSettings : GetProjectResolves(settings)
    \/ LoadProjectSucceeds
    \/ \E projectId \in Projects : Navigate(projectId)
    \/ handleFileChange
    \/ handleAudioLoaded
    \/ handleNavigation(Dashboard)
    \/ handleSaveAndNavigate
    \/ handleDiscardAndNavigate
    \/ handleCancelNavigation
    \/ PushTimerFires
    \/ handleSave
    \/ \E wasUpdate \in BOOLEAN : SaveSucceeds(wasUpdate)
    \/ SaveFails
    \/ handleClose

SpecStudio == Init /\ [][NextStudio]_vars

----------------------------------------------------------------------------
\* The settings of one mounted player: the apply effect on the records the
\* persistence layer can hold, then the controls and the unsaved-changes effect.
\* The values are chosen so that their differences are exact in floating point
\* (0.001 - 0 is 0.001), which lets thousandths stand for them.

\* AudioEffectsSettings records within the sliders' ranges
RecordVolumes == {0, 1, DefaultVolume}
RecordBassAmounts == {0, 10}
InRangeSettings ==
    { [ bass_enabled |-> e, bass_amount |-> a,
        speed_enabled |-> FALSE, speed |-> DefaultSpeed,
        pitch_enabled |-> FALSE, semitones |-> DefaultSemitones,
        volume |-> v ] :
      e \in BOOLEAN, a \in RecordBassAmounts, v \in RecordVolumes }

\* the projects the page may have loaded, or none after an upload
LoadedProjects ==
    {NoProject} \cup { [id |-> 1, settings |-> r] : r \in InRangeSettings }

\* positions of the volume slider (min 0, step 0.01)
SliderVolumes == {0, DefaultVolume}

\* the player has been mounted for `loadedProject` and every effect of the mount
\* but the last, the apply effect, has run
InitSettings ==
    /\ loadedProject \in LoadedProjects
    /\ urlProject = loadedProject.id
    /\ audioFile = IF loadedProject.id = 0 THEN UploadName ELSE loadedProject.id
    /\ loadingProject = FALSE
    /\ loadError = FALSE
    /\ loadedProjectIdRef = loadedProject.id
    /\ lpPc = "idle"
    /\ lpId = 0
    /\ lpProject = NoSettings
    /\ validating = 0
    /\ pendingCommit = "none"
    /\ ctxRef = TRUE
    /\ srcRef = TRUE
    /\ mounted = TRUE
    /\ playerKey = PlayerKey
    /\ st = InitialState
    /\ graph = "live"
    /\ edges = StateA
    /\ ctxState = "suspended"
    /\ oldCtxOpen = FALSE
    /\ filterGain = 0
    /\ psActive = FALSE
    /\ psShift = PitchRatio(DefaultSemitones)
    /\ audioPlaying = FALSE
    /\ playbackRate = DefaultSpeed
    /\ audioVolume = DefaultVolume
    /\ todo = <<"applyProjectEffect">>
    /\ task = "load"
    /\ inputData = Silence
    /\ outputData = Silence
    /\ lastRead = {}
    /\ duration = 0
    /\ currentTime = 0
    /\ seekValue = 0
    /\ audioTime = 0
    /\ fileIsWav = FALSE
    /\ hasSuccessfullyLoaded = FALSE
    /\ hasReportedError = FALSE
    /\ reported = <<>>
    /\ warned = FALSE
    /\ originalEffectsSettings = NoSettings
    /\ hasUnsavedChanges = FALSE
    /\ showSaveDialog = FALSE
    /\ isSaving = FALSE
    /\ saveError = FALSE
    /\ pageHasUnsavedChanges = FALSE
    /\ showUnsavedDialog = FALSE
    /\ pendingNavigation = NoUrl
    /\ triggerSaveDialog = FALSE
    /\ isExiting = FALSE
    /\ pushTimer = NoTimer
    /\ persisted = FALSE
    /\ pushed = NoUrl

NextSettings ==
    \/ ApplyProjectEffect
    \/ UnsavedChangesEffect
    \/ RoutingEffect
    \/ GainDisconnect
    \/ BassDisconnect
    \/ SourceDisconnect
    \/ SourceConnect
    \/ GainConnect
    \/ BassConnect
    \/ PitchConnect
    \/ PitchEffect
    \/ SpeedEffect
    \/ VolumeEffect
    \/ BassGainEffect
    \/ handleTogglePitchShift
    \/ handleToggleSpeedControl
    \/ handleToggleBassBoost
    \/ \E v \in BassAmountChoices : setBassBoostAmount(v)
    \/ \E v \in SliderVolumes : setVolume(v)
    \/ resetAllEffects
    \/ resetToProjectDefaults

SpecSettings == InitSettings /\ [][NextSettings]_vars

----------------------------------------------------------------------------
\* Properties

\* a player is mounted, its file is loaded and nothing is left to run
Quiescent == mounted /\ Idle /\ graph = "live"

\* the routing effect has run to its end on the current nodes: only its last
\* call connects the pitch unit to the destination
RoutingDone == <<PSOutput, Destination>> \in edges

EffectiveRate(s) == IF s.speedControlEnabled THEN s.speedValue ELSE DefaultSpeed

\* C1: once the routing effect has finished, the edge set is exactly State A when
\* bass boost is off and exactly State B when it is on; InputGain has exactly one
\* outbound edge and, when bass boost is off, no edge touches BassBoostFilter.
C1_RoutedTopologyMatchesFlag ==
    (Quiescent /\ RoutingDone) =>
        /\ edges = Topology(st.bassBoostEnabled)
        /\ Cardinality(Out(edges, InputGain)) = 1
        /\ ~st.bassBoostEnabled =>
               \A e \in edges : e[1] # BassBoostFilter /\ e[2] # BassBoostFilter

\* bass boost was on (only then can the amount leave its default) and is off again
C1_Witness ==
    /\ Quiescent /\ RoutingDone
    /\ ~st.bassBoostEnabled
    /\ st.bassBoostAmount # DefaultBassAmount
    /\ task = "idle"
    /\ edges = StateA

\* two distinct paths lead from InputGain to the pitch unit's input
ParallelPaths ==
    /\ <<InputGain, PSInput>> \in edges
    /\ <<InputGain, BassBoostFilter>> \in edges
    /\ <<BassBoostFilter, PSInput>> \in edges

\* the routing effect is about to connect an edge other than Source -> InputGain
AboutToRebuild == At("gainConnect")

\* C2: in every state, intermediate ones included, at most one path leads from
\* InputGain to the pitch unit's input; and when the routing effect starts to
\* connect edges other than Source -> InputGain, InputGain, BassBoostFilter and
\* Source have been disconnected.
C2_TearDownBeforeRebuild ==
    /\ ~ParallelPaths
    /\ AboutToRebuild =>
           /\ Out(edges, InputGain) = {}
           /\ Out(edges, BassBoostFilter) = {}
           /\ Out(edges, Source) = {<<Source, InputGain>>}

\* the filter is being inserted into a graph that was routed without it
C2_Witness ==
    /\ task = "handleToggleBassBoost"
    /\ At("bassConnect")
    /\ <<InputGain, BassBoostFilter>> \in edges
    /\ <<InputGain, PSInput>> \notin edges

\* C3: while the task of a pitch-shift toggle runs, no connect or disconnect
\* changes the edge set.
C3_PitchToggleLeavesGraph ==
    [][task = "handleTogglePitchShift" => edges' = edges]_vars

C5_LoadedFileReachesDestination ==
    Quiescent => Topology(st.bassBoostEnabled) \subseteq edges

\* the units and the audio element carry the current settings
UnitsCarrySettings ==
    /\ psActive = st.pitchShiftEnabled
    /\ psShift = PitchRatio(st.pitchValue)
    /\ filterGain = EffectiveGain(st)
    /\ playbackRate = EffectiveRate(st)
    /\ audioVolume = st.volume

\* C6: when the task that ran the load effect ends, the new pitch unit, filter
\* and audio element carry the current settings.
C6_LoadAppliesPendingSettings ==
    [][(task = "load" /\ task' = "idle") => UnitsCarrySettings']_vars

\* C7: at rest after a reconfiguration of the current nodes, the pitch unit's
\* active flag and ratio and the filter gain match the current settings.
C7_ReconfiguredUnitsAreCurrent ==
    (Quiescent /\ RoutingDone) =>
        /\ psActive = st.pitchShiftEnabled
        /\ psShift = PitchRatio(st.pitchValue)
        /\ filterGain = EffectiveGain(st)

\* C8: after the cleanup the audio is paused, no edge leaves a node created for
\* the file, and the context is closed.
C8_TeardownDisconnectsEveryNode ==
    graph = "torn" =>
        /\ ~audioPlaying
        /\ \A e \in edges : e[1] \notin FileNodes
        /\ ctxState = "closed"

\* C9: when the load effect is about to create a new source, the previous one is
\* paused and disconnected and its context closed; and no earlier context is
\* left to deliver callbacks.
C9_OldSourceStoppedBeforeNew ==
    /\ (At("loadEffect") /\ graph # "none") =>
           /\ ~audioPlaying
           /\ Out(edges, Source) = {}
           /\ ctxState = "closed"
    /\ ~ENABLED AudioCallback("earlier")

\* C10: while the URL asks for a project, a completed load is applied to
\* loadedProject only if it is the load of that project, the most recently
\* requested one.
C10_StaleLoadDropped ==
    [][(loadedProject' # loadedProject /\ loadedProject'.id # 0 /\ urlProject' # 0)
           => loadedProject'.id = urlProject']_vars

----------------------------------------------------------------------------
\* Properties of the parameters (under Spec)

\* C13: no step of the task a bass-boost toggle starts changes the pitch unit's
\* ratio or its active flag.
C13_BassToggleKeepsPitchParameters ==
    [][(task = "handleToggleBassBoost" \/ task' = "handleToggleBassBoost") =>
           psShift' = psShift /\ psActive' = psActive]_vars

\* bass boost has just been switched off and the graph rewired to State A, with
\* the pitch unit active at +12 semitones
C13_Witness ==
    /\ task = "handleToggleBassBoost"
    /\ At("bassGainEffect")
    /\ ~st.bassBoostEnabled
    /\ edges = StateA
    /\ st.pitchShiftEnabled /\ st.pitchValue = 12
    /\ psActive /\ psShift = 2000

\* C14: at rest with a loaded file the filter's gain is bassBoostAmount when bass
\* boost is enabled and 0 when it is disabled.
C14_FilterGainFollowsBassBoost ==
    Quiescent =>
        /\ st.bassBoostEnabled => filterGain = st.bassBoostAmount
        /\ ~st.bassBoostEnabled => filterGain = 0

\* bass boost is disabled while an amount other than the default is stored
C14_Witness ==
    /\ Quiescent
    /\ ~st.bassBoostEnabled
    /\ st.bassBoostAmount = 10
    /\ filterGain = 0

\* C15: re-enabling bass boost keeps the amount that was stored while it was
\* disabled, so that the gain effect applies that amount again.
C15_BassAmountSurvivesDisable ==
    [][(task' = "handleToggleBassBoost" /\ ~st.bassBoostEnabled /\ st'.bassBoostEnabled)
           => st'.bassBoostAmount = st.bassBoostAmount]_vars

\* C16: at rest with a loaded file the element's playback rate is speedValue when
\* speed control is enabled and 1.0 when it is disabled.
C16_PlaybackRateFollowsSpeedControl ==
    Quiescent =>
        /\ st.speedControlEnabled => playbackRate = st.speedValue
        /\ ~st.speedControlEnabled => playbackRate = DefaultSpeed

\* speed control is disabled while a multiplier of 1.3 is stored
C16_Witness ==
    /\ Quiescent
    /\ ~st.speedControlEnabled
    /\ st.speedValue = 1300
    /\ playbackRate = DefaultSpeed

\* C17: re-enabling speed control keeps the multiplier that was stored while it
\* was disabled.
C17_SpeedSurvivesDisable ==
    [][(task' = "handleToggleSpeedControl" /\ ~st.speedControlEnabled
            /\ st'.speedControlEnabled)
           => st'.speedValue = st.speedValue]_vars

\* the tasks started by the speed toggle, the speed slider and the volume slider
TransportTasks == {"handleToggleSpeedControl", "setSpeedValue", "setVolume"}

\* C18: no step of a task started by the speed toggle, the speed slider or the
\* volume slider changes the edge set, the filter gain, the pitch ratio or the
\* pitch unit's active flag.
C18_TransportChangesLeaveGraph ==
    [][(task \in TransportTasks \/ task' \in TransportTasks) =>
           /\ edges' = edges
           /\ filterGain' = filterGain
           /\ psShift' = psShift
           /\ psActive' = psActive]_vars

\* the speed effect is about to run for a new multiplier on a routed graph with
\* bass boost and pitch shift in use
C18_Witness ==
    /\ task = "setSpeedValue"
    /\ At("speedEffect")
    /\ st.speedValue = 1300
    /\ edges = StateB
    /\ filterGain = 10
    /\ psActive /\ psShift = 2000

----------------------------------------------------------------------------
\* Properties of PitchShifter.processAudio (under SpecPitchShifter)

\* a callback has run: it replaced the block
Processed == inputData' # inputData \/ outputData' # outputData

\* C11: a callback that runs while the unit is inactive, or active with ratio
\* exactly 1.0, leaves an output block of the input's length with
\* output[i] = input[i] for every i.
C11_IdentityWhenInactiveOrUnison ==
    [][(Processed /\ (~psActive \/ psShift = 1000)) =>
           /\ DOMAIN outputData' = DOMAIN inputData'
           /\ \A i \in DOMAIN inputData' : outputData'[i] = inputData'[i]]_vars

\* an inactive unit whose ratio is not 1.0 has passed a block that is not constant
C11_Witness ==
    /\ ~psActive
    /\ psShift = 2000
    /\ inputData = [i \in 0..(BlockLen - 1) |-> IF i = 1 THEN 1000 ELSE -1000]
    /\ outputData = inputData
    /\ lastRead = DOMAIN inputData

\* C12: a callback that runs while the unit is active with ratio 2.0 leaves
\* output[i] = input[2i] where 2i < N and 0 where 2i >= N; and whatever the ratio,
\* an active unit starts reading at index 0, copies the sample at the last valid
\* index without interpolation, and reads no index >= N.
C12_OctaveUpDecimates ==
    [][(Processed /\ psActive) =>
           LET n == Cardinality(DOMAIN inputData')
           IN  /\ psShift = 2000 =>
                       \A i \in DOMAIN outputData' :
                           outputData'[i] = IF 2 * i < n THEN inputData'[2 * i] ELSE 0
               /\ outputData'[0] = inputData'[0]
               /\ \A i \in DOMAIN outputData' :
                       IntIndex(i, psShift) = n - 1 => outputData'[i] = inputData'[n - 1]
               /\ \A k \in lastRead' : k >= 0 /\ k < n]_vars

\* the unit is active at ratio 2.0 and has processed a rising block, reading its
\* last sample
C12_Witness ==
    /\ psActive
    /\ psShift = 2000
    /\ inputData = [i \in 0..(BlockLen - 1) |-> IF i < 2 THEN -1000 ELSE 1000]
    /\ outputData = [i \in 0..(BlockLen - 1) |->
                         IF 2 * i < BlockLen THEN inputData[2 * i] ELSE 0]
    /\ (BlockLen - 1) \in lastRead

----------------------------------------------------------------------------
\* Properties of the audio element (under SpecAudioElement)

\* the seek position the fraction x / width stands for, in hundredths of a second
SeekPosition(x, width, seconds) ==
    IF x <= 0 THEN 0
    ELSE IF x >= width THEN 100 * seconds
    ELSE (x * 100 * seconds) \div width

ErrorClasses == {"aborted", "network", "decode", "unsupported-format"}

\* C20: a load reports at most one media error, of one of the four classes, and
\* none once a successful-load event has arrived; the first error of a load, when
\* it is unsupported-format, is reported unless the file is a WAV file.
C20_MediaErrorReportedOnce ==
    [][/\ Len(reported') <= 1
       /\ \A k \in DOMAIN reported' : reported'[k] \in ErrorClasses
       /\ hasSuccessfullyLoaded => (reported' = reported \/ reported' = <<>>)
       /\ (handleAudioError(MEDIA_ERR_SRC_NOT_SUPPORTED)
              /\ ~hasSuccessfullyLoaded /\ ~hasReportedError) =>
               reported' = IF fileIsWav THEN <<>> ELSE <<"unsupported-format">>]_vars

\* the load timeout has warned, and then a file that is not WAV has had its
\* unsupported-format error reported
C20_Witness ==
    /\ ~fileIsWav
    /\ hasReportedError
    /\ reported = <<"unsupported-format">>
    /\ ~hasSuccessfullyLoaded
    /\ warned

----------------------------------------------------------------------------
\* Properties of a failed project load

\* C26: after a project load has failed the page stays in the error state: the
\* error message is cleared, and another load started, only by the user's reset
\* or by a change of the project id in the URL.
C26_FailedLoadStaysFailed ==
    [][loadError =>
           \/ loadError' /\ lpPc' = lpPc
           \/ task = "navigate"
           \/ handleReset]_vars

----------------------------------------------------------------------------
\* Properties of the transport and the analyser tap

\* C28: isPlaying is true only if the audio element is playing, also after the
\* track has reached its end and after a play request was refused.
C28_IsPlayingMatchesTransport ==
    (mounted /\ graph = "live" /\ st.isPlaying) => audioPlaying

\* C29: after the routing effect has run, Source is still connected to both
\* InputGain and the analyser's input node.
C29_AnalyserTapSurvivesRouting ==
    (Quiescent /\ RoutingDone) =>
        /\ <<Source, InputGain>> \in edges
        /\ <<Source, AnalyserInput>> \in edges

----------------------------------------------------------------------------
\* Properties of the resets and the baseline

\* the running task ends with this step
TaskEnds == todo # <<>> /\ todo' = <<>>

\* the running task mounted a player for a loaded project, so that its apply
\* effect has run (a task that only replaces the file ends with the load effect)
MountedLoadedProject ==
    task = "load" /\ ~At("loadEffect") /\ loadedProject.id # 0 /\ mounted

\* C23: when the task that applied a loaded project's settings ends, the live
\* settings are the baseline and the dirty flag is false.  resetToProjectDefaults
\* puts every live field, the volume included, back to the baseline and leaves the
\* baseline alone; when its task ends the dirty flag is false.  Without a baseline
\* it changes nothing.
C23_ResetRestoresBaseline ==
    [][/\ (MountedLoadedProject /\ TaskEnds) =>
              /\ CurrentSettings(st') = originalEffectsSettings'
              /\ ~hasUnsavedChanges'
       /\ resetToProjectDefaults =>
              /\ originalEffectsSettings' = originalEffectsSettings
              /\ st'.isPlaying = st.isPlaying
              /\ IF originalEffectsSettings = NoSettings
                 THEN st' = st
                 ELSE CurrentSettings(st') = originalEffectsSettings
       /\ (task = "resetToProjectDefaults" /\ TaskEnds) =>
              /\ CurrentSettings(st') = originalEffectsSettings'
              /\ ~hasUnsavedChanges']_vars

\* the reset has just put a volume other than the default back, and the effects
\* that follow it have not run yet
C23_Witness ==
    /\ task = "resetToProjectDefaults"
    /\ At("volumeEffect")
    /\ CurrentSettings(st) = originalEffectsSettings
    /\ st.volume # DefaultVolume
    /\ audioVolume # st.volume
    /\ hasUnsavedChanges

\* C24: resetAllEffects disables the three effects and sets the amount to 6, the
\* speed to 1.0 and the semitones to 0; it changes neither the volume nor the
\* baseline, whether or not there is one.
C24_ResetAllKeepsVolumeAndBaseline ==
    [][resetAllEffects =>
           /\ ~st'.bassBoostEnabled /\ ~st'.speedControlEnabled /\ ~st'.pitchShiftEnabled
           /\ st'.bassBoostAmount = DefaultBassAmount
           /\ st'.speedValue = DefaultSpeed
           /\ st'.pitchValue = DefaultSemitones
           /\ st'.volume = st.volume
           /\ st'.isPlaying = st.isPlaying
           /\ originalEffectsSettings' = originalEffectsSettings]_vars

\* "Reset All" has just switched the effects of a loaded project off; its volume
\* is not the default
C24_Witness ==
    /\ task = "resetAllEffects"
    /\ At("routingEffect")
    /\ originalEffectsSettings # NoSettings
    /\ originalEffectsSettings.bass_enabled
    /\ ~st.bassBoostEnabled /\ ~st.speedControlEnabled /\ ~st.pitchShiftEnabled
    /\ st.volume # DefaultVolume

----------------------------------------------------------------------------
\* Properties of the unsaved-changes flag and of the apply effect

\* the player is at rest
AtRest == mounted /\ todo = <<>> /\ pendingCommit = "none"

\* C21: with a baseline the dirty flag is true exactly when an enabled flag
\* differs, or the bass amount or the semitones differ, or the speed or the volume
\* differs from the baseline by more than 0.001; a difference of exactly 0.001 is
\* not dirty.
C21_DirtyAgainstBaseline ==
    LET current == CurrentSettings(st)
        original == originalEffectsSettings
    IN  (AtRest /\ loadedProject.id # 0 /\ original # NoSettings) =>
            ( hasUnsavedChanges <=>
                \/ current.bass_enabled # original.bass_enabled
                \/ current.speed_enabled # original.speed_enabled
                \/ current.pitch_enabled # original.pitch_enabled
                \/ current.bass_amount # original.bass_amount
                \/ current.semitones # original.semitones
                \/ current.speed - original.speed > Tolerance
                \/ original.speed - current.speed > Tolerance
                \/ current.volume - original.volume > Tolerance
                \/ original.volume - current.volume > Tolerance )

\* C22: without a baseline the dirty flag is true exactly when an effect is
\* enabled or the volume is not 0.75; a changed value of a disabled effect does
\* not make the state dirty.
C22_DirtyWithoutBaseline ==
    (AtRest /\ originalEffectsSettings = NoSettings) =>
        ( hasUnsavedChanges <=>
            \/ st.bassBoostEnabled
            \/ st.speedControlEnabled
            \/ st.pitchShiftEnabled
            \/ st.volume # DefaultVolume )

\* bass boost was on with 10 dB and is off again, the volume is the default: the
\* amount differs from its default and nothing is unsaved
C22_Witness ==
    /\ AtRest
    /\ task = "idle"
    /\ originalEffectsSettings = NoSettings
    /\ ~st.bassBoostEnabled /\ ~st.speedControlEnabled /\ ~st.pitchShiftEnabled
    /\ st.bassBoostAmount # DefaultBassAmount
    /\ st.volume = DefaultVolume
    /\ ~hasUnsavedChanges

\* C27: applying a persisted record is lossless: after the apply effect each live
\* field is the stored field, a stored bass amount of 0 and a stored volume of 0
\* included.
C27_ApplyIsLossless ==
    [][(ApplyProjectEffect /\ loadedProject.id # 0) =>
           CurrentSettings(st') = loadedProject.settings]_vars

----------------------------------------------------------------------------
\* Properties of saving and of leaving the studio

\* the persistence layer has just stored the project
SaveSucceeded == \E wasUpdate \in BOOLEAN : SaveSucceeds(wasUpdate)

\* C25: after a successful save, of a new project or of an update, the baseline
\* is the then-current settings and the dirty flag is false.
C25_SaveReplacesBaseline ==
    [][SaveSucceeded =>
           /\ originalEffectsSettings' = CurrentSettings(st')
           /\ ~hasUnsavedChanges']_vars

\* C30: a navigation requested with unsaved changes opens the dialog and pushes
\* nothing; the pending URL is scheduled to be pushed only by Discard or by the
\* completion of a save started from the dialog; Cancel clears the pending URL and
\* schedules nothing; and when a save started from the dialog succeeds, the push of
\* the pending URL is scheduled.
C30_UnsavedNavigation ==
    [][/\ (handleNavigation(Dashboard) /\ pageHasUnsavedChanges) =>
              /\ showUnsavedDialog'
              /\ pendingNavigation' = Dashboard
              /\ pushTimer' = pushTimer /\ pushed' = pushed
       /\ (pushTimer' # pushTimer /\ pushTimer'.clearsPending) =>
              (handleDiscardAndNavigate \/ SaveSucceeded)
       /\ handleCancelNavigation =>
              /\ pendingNavigation' = NoUrl
              /\ pushTimer' = pushTimer /\ pushed' = pushed
       /\ (SaveSucceeded /\ triggerSaveDialog /\ pendingNavigation # NoUrl) =>
              pushTimer' = [url |-> pendingNavigation, clearsPending |-> TRUE]]_vars

====
